---------------------------- MODULE Spec2Model ----------------------------
(***************************************************************************)
(* A model of src/optimize/Gradient.py: the gradient of the SROM objective *)
(* function with respect to the SROM probabilities.                        *)
(*                                                                         *)
(* Numbers.  numpy's float64 values are modelled as exact rationals        *)
(* [n |-> numerator, d |-> denominator] in lowest terms with d > 0,        *)
(* together with the three IEEE-754 specials, written with d = 0:          *)
(*     +inf = 1/0,   -inf = -1/0,   nan = 0/0.                             *)
(* Rounding is not modelled; division by zero, inf - inf, 0 * inf and the  *)
(* propagation of nan are (numpy does not raise on them for arrays).       *)
(* Every divisor in the source is target**2.0, which is never -0.0, so     *)
(* signed zeros are not needed.                                            *)
(*                                                                         *)
(* Vectors are sequences of numbers, matrices are sequences of rows.       *)
(***************************************************************************)
EXTENDS Integers, Sequences, FiniteSets, TLC

----------------------------------------------------------------------------
(* float64 arithmetic                                                      *)

Abs(a) == IF a < 0 THEN -a ELSE a

RECURSIVE GCD(_, _)
GCD(a, b) == IF b = 0 THEN a ELSE GCD(b, a % b)

Sign(a) == IF a > 0 THEN 1 ELSE IF a < 0 THEN -1 ELSE 0

\* The number n/d; d = 0 gives the special with the sign of n.
Rat(n, d) ==
    IF d = 0 THEN [n |-> Sign(n), d |-> 0]
    ELSE LET g == GCD(Abs(n), Abs(d))
             s == IF d < 0 THEN -1 ELSE 1
         IN  [n |-> s * (n \div g), d |-> s * (d \div g)]

Zero   == [n |-> 0, d |-> 1]
One    == [n |-> 1, d |-> 1]
NaN    == [n |-> 0, d |-> 0]
PosInf == [n |-> 1, d |-> 0]
NegInf == [n |-> -1, d |-> 0]

IsNaN(x)    == x.d = 0 /\ x.n = 0
IsInf(x)    == x.d = 0 /\ x.n # 0
IsFinite(x) == x.d # 0

Neg(x) == [n |-> -x.n, d |-> x.d]

\* x + y
Add(x, y) ==
    IF IsNaN(x) \/ IsNaN(y) THEN NaN
    ELSE IF IsInf(x) /\ IsInf(y) THEN (IF x.n = y.n THEN x ELSE NaN)
    ELSE IF IsInf(x) THEN x
    ELSE IF IsInf(y) THEN y
    ELSE LET g == GCD(x.d, y.d)
         IN  Rat(x.n * (y.d \div g) + y.n * (x.d \div g), (x.d \div g) * y.d)

\* x - y
Sub(x, y) == Add(x, Neg(y))

\* x * y
Mul(x, y) ==
    IF IsNaN(x) \/ IsNaN(y) THEN NaN
    ELSE IF IsInf(x) \/ IsInf(y)
         THEN (IF x.n = 0 \/ y.n = 0 THEN NaN
               ELSE [n |-> Sign(x.n) * Sign(y.n), d |-> 0])
    ELSE LET g == GCD(Abs(x.n), y.d)
             h == GCD(Abs(y.n), x.d)
         IN  IF x.n = 0 \/ y.n = 0 THEN Zero
             ELSE [n |-> (x.n \div g) * (y.n \div h),
                   d |-> (x.d \div h) * (y.d \div g)]

\* x / y
Div(x, y) ==
    IF IsNaN(x) \/ IsNaN(y) THEN NaN
    ELSE IF IsInf(y) THEN (IF IsInf(x) THEN NaN ELSE Zero)
    ELSE IF IsInf(x) THEN (IF y.n < 0 THEN Neg(x) ELSE x)
    ELSE IF y.n = 0 THEN [n |-> Sign(x.n), d |-> 0]
    ELSE Rat(x.n * y.d, x.d * y.n)

\* x ** q for an integer q >= 1
RECURSIVE Pow(_, _)
Pow(x, q) == IF q <= 1 THEN x ELSE Mul(x, Pow(x, q - 1))

\* x >= y and x > y; a comparison with nan is False
Ge(x, y) ==
    IF IsNaN(x) \/ IsNaN(y) THEN FALSE
    ELSE IF IsInf(x) /\ IsInf(y) THEN x.n >= y.n
    ELSE IF IsInf(x) THEN x.n > 0
    ELSE IF IsInf(y) THEN y.n < 0
    ELSE x.n * y.d >= y.n * x.d

Gt(x, y) == Ge(x, y) /\ x # y

----------------------------------------------------------------------------
(* numpy array operations                                                  *)

\* np.zeros(n)
zeros(n) == [k \in 1..n |-> Zero]

\* np.sum of a vector (0.0 for an empty one)
RECURSIVE sum(_)
sum(v) == IF Len(v) = 0 THEN Zero ELSE Add(Head(v), sum(Tail(v)))


\* scalar * vector
scale(w, v) == [k \in 1..Len(v) |-> Mul(w, v[k])]

\* The result of a call: a value, or an exception raised.
Value(v)    == [raised |-> FALSE, exc |-> "", val |-> v]
Raise(name) == [raised |-> TRUE, exc |-> name, val |-> <<>>]

\* vector + vector under numpy's broadcasting rule: equal lengths add
\* elementwise, a length-1 operand is stretched, anything else raises
\* "operands could not be broadcast together".
vadd(a, b) ==
    IF a.raised THEN a
    ELSE IF b.raised THEN b
    ELSE LET u == a.val
             v == b.val
         IN  IF Len(u) = Len(v)
                 THEN Value([k \in 1..Len(u) |-> Add(u[k], v[k])])
             ELSE IF Len(u) = 1
                 THEN Value([k \in 1..Len(v) |-> Add(u[1], v[k])])
             ELSE IF Len(v) = 1
                 THEN Value([k \in 1..Len(u) |-> Add(u[k], v[1])])
             ELSE Raise("ValueError")

\* samples.flatten(): the rows one after the other (row-major)
RECURSIVE flatten(_)
flatten(m) == IF Len(m) = 0 THEN <<>> ELSE Head(m) \o flatten(Tail(m))

\* np.repeat(row, reps): each entry reps times over, in place of np.tile.
RECURSIVE repeat_each(_, _)
repeat_each(row, reps) ==
    IF Len(row) = 0 THEN <<>>
    ELSE [k \in 1..reps |-> Head(row)] \o repeat_each(Tail(row), reps)

\* np.tile(row, reps): the whole row, reps times over
RECURSIVE tile(_, _)
tile(row, reps) == IF reps = 0 THEN <<>> ELSE row \o tile(row, reps - 1)

\* v ** q, elementwise
power(v, q) == [k \in 1..Len(v) |-> Pow(v[k], q)]

\* a += b for two vectors of one length
plus(a, b) == [k \in 1..Len(a) |-> Add(a[k], b[k])]

\* np.multiply(a, b) of two vectors of one length
multiply(a, b) == [k \in 1..Len(a) |-> Mul(a[k], b[k])]

\* v.reshape(size, dim): row r holds entries (r-1)*dim + 1 .. r*dim
reshape(v, size, dim) ==
    [r \in 1..size |-> [c \in 1..dim |-> v[(r - 1) * dim + c]]]

\* np.sum(m, axis=1): one sum per row
sum_axis1(m) == [r \in 1..Len(m) |-> sum(m[r])]

\* m[:, i]
column(m, i) == [g \in 1..Len(m) |-> m[g][i]]

\* The mask ignored: every entry of col.
unmasked(col, indz) == col

\* col[indz]: the entries of col at which the boolean mask indz is True
RECURSIVE masked(_, _)
masked(col, indz) ==
    IF Len(col) = 0 THEN <<>>
    ELSE (IF Head(indz) THEN <<Head(col)>> ELSE <<>>)
         \o masked(Tail(col), Tail(indz))

\* (a - b) / b**2.0, elementwise on two matrices of one shape
rel_diffs(a, b) ==
    [r \in 1..Len(a) |->
        [c \in 1..Len(a[r]) |->
            Div(Sub(a[r][c], b[r][c]), Mul(b[r][c], b[r][c]))]]

\* A linspace that leaves the endpoint out (endpoint=False).
linspace_no_endpoint(start, stop, num) ==
    [j \in 1..num |->
        Add(start, Mul(Rat(j - 1, 1), Div(Sub(stop, start), Rat(num, 1))))]

\* np.linspace(start, stop, num), endpoint included: num = 1 gives [start];
\* otherwise start + j*step for j = 0..num-2 and then stop itself.
linspace(start, stop, num) ==
    LET step == Div(Sub(stop, start), Rat(num - 1, 1))
    IN  [j \in 1..num |->
            IF num = 1 THEN start
            ELSE IF j = num THEN stop
            ELSE Add(start, Mul(Rat(j - 1, 1), step))]

\* str.upper() on the letters the model uses; a string is a sequence of
\* one-character strings.
UpperChar(c) ==
    CASE c = "a" -> "A" [] c = "e" -> "E" [] c = "m" -> "M" [] c = "n" -> "N"
      [] c = "s" -> "S" [] c = "x" -> "X" [] c = "w" -> "W" [] c = "i" -> "I"
      [] c = "r" -> "R" [] c = "d" -> "D" [] OTHER -> c

upper(str) == [k \in 1..Len(str) |-> UpperChar(str[k])]

----------------------------------------------------------------------------
(* The collaborators.  Their classes are not part of src/; they are        *)
(* modelled from the specification's words (sections 3, 6 and glossary).   *)

\* SROM.set_params(samples, probs): the model's parameter state becomes
\* exactly (samples, probs); its size is the sample count.
SROM_set_params(samples, probs) ==
    [size |-> Len(samples), dim |-> Len(samples[1]),
     samples |-> samples, probs |-> probs]

\* SROM.compute_CDF(x_grid): the marginal CDF of the discrete distribution,
\* P(X_i <= x_grid[g][i]), one column per dimension.
SROM_compute_CDF(srom, x_grid) ==
    [g \in 1..Len(x_grid) |->
        [i \in 1..srom.dim |->
            sum([k \in 1..srom.size |->
                    IF Ge(x_grid[g][i], srom.samples[k][i])
                    THEN srom.probs[k] ELSE Zero])]]

\* SROM.compute_moments(max_moment): E[X_i^q] for q = 1..max_moment
SROM_compute_moments(srom, max_moment) ==
    [q \in 1..max_moment |->
        [i \in 1..srom.dim |->
            sum([k \in 1..srom.size |->
                    Mul(srom.probs[k], Pow(srom.samples[k][i], q))])]]

\* SROM.compute_corr_mat(): E[X_i X_j]
SROM_compute_corr_mat(srom) ==
    [i \in 1..srom.dim |->
        [j \in 1..srom.dim |->
            sum([k \in 1..srom.size |->
                    Mul(srom.probs[k],
                        Mul(srom.samples[k][i], srom.samples[k][j]))])]]

\* The target random vector is [dim, mins, maxs, cdf, moments, corr]: its
\* dimension and bounds (integers, mins[i] < maxs[i]), the kind of its
\* marginal CDFs, its table of moments (row q: E[X_i^q]) and its
\* correlation matrix (E[X_i X_j]).

\* target.compute_CDF(x_grid).  "uniform": uniform on [mins[i], maxs[i]];
\* "atom": all mass at maxs[i].
target_compute_CDF(target, x_grid) ==
    [g \in 1..Len(x_grid) |->
        [i \in 1..target.dim |->
            LET x == x_grid[g][i]
                a == Rat(target.mins[i], 1)
                b == Rat(target.maxs[i], 1)
            IN  IF Ge(x, b) THEN One
                ELSE IF target.cdf = "atom" \/ ~Ge(x, a) THEN Zero
                ELSE Div(Sub(x, a), Sub(b, a))]]

\* target.compute_moments(max_moment)
target_compute_moments(target, max_moment) ==
    [q \in 1..max_moment |-> target.moments[q]]

\* target.compute_corr_mat()
target_compute_corr_mat(target) == target.corr

\* One entry of the log of calls made on the collaborators: which object,
\* which method, and the SROM parameter state (samples, probs) the call was
\* served from (for set_params: the state it leaves).
Q(obj, method, srom) ==
    [obj |-> obj, method |-> method,
     params |-> IF obj = "SROM" THEN <<srom.samples, srom.probs>> ELSE <<>>]

----------------------------------------------------------------------------
(* class Gradient.  self is the record of the object's fields             *)
(* [x_grid, weights, metric, max_moment]; srom and target are the objects  *)
(* self._SROM and self._target refer to.  A method returns                 *)
(* [raised, exc, val, log]: its result and the collaborator calls it made. *)

WithLog(r, log) ==
    [raised |-> r.raised, exc |-> r.exc, val |-> r.val, log |-> log]

\* generate_cdf_grids: cdf_grid_pts rows, one column per target dimension,
\* column i = np.linspace(mins[i], maxs[i], cdf_grid_pts)
generate_cdf_grids(target, cdf_grid_pts) ==
    LET grid(i) == linspace(Rat(target.mins[i], 1), Rat(target.maxs[i], 1),
                            cdf_grid_pts)
    IN  [g \in 1..cdf_grid_pts |-> [i \in 1..target.dim |-> grid(i)[g]]]

\* The indicator with > for >=.
indicator_strict(grid_i, x) == [g \in 1..Len(grid_i) |-> Gt(grid_i[g], x)]

\* The indicator of CDF_wrt_prob: grid_i >= samples_k[i]
indicator(grid_i, x) == [g \in 1..Len(grid_i) |-> Ge(grid_i[g], x)]

\* The inner loop of CDF_wrt_prob (lines 116-121) run for the dimensions
\* 1..i: grad_i += np.sum(diffs[indz, i]) with indz = grid_i >= samples_k[i]
RECURSIVE cdf_grad_i(_, _, _, _)
cdf_grad_i(diffs, x_grid, samples_k, i) ==
    IF i = 0 THEN Zero
    ELSE Add(cdf_grad_i(diffs, x_grid, samples_k, i - 1),
             sum(masked(column(diffs, i),
                        indicator(column(x_grid, i), samples_k[i]))))

\* CDF_wrt_prob
CDF_wrt_prob(self, srom, target, samples, probs) ==
    LET size == Len(samples)
        dim  == Len(samples[1])
        srom_cdfs   == SROM_compute_CDF(srom, self.x_grid)
        target_cdfs == target_compute_CDF(target, self.x_grid)
        diffs == rel_diffs(srom_cdfs, target_cdfs)
        grad  == [srom_ind \in 1..size |->
                    cdf_grad_i(diffs, self.x_grid, samples[srom_ind], dim)]
    IN  WithLog(Value(grad),
                <<Q("SROM", "compute_CDF", srom),
                  Q("target", "compute_CDF", srom)>>)

\* The loop of moment_wrt_prob (lines 144-148) run for the orders 1..q
\* (the source's q counts from 0: its q+1 is the order, its diffs[q,:] the
\* row of that order).
RECURSIVE moment_loop(_, _, _, _, _)
moment_loop(diffs, samples_flat, size, dim, q) ==
    IF q = 0 THEN zeros(size)
    ELSE LET samples_q   == power(samples_flat, q)
             diffs_tiled == tile(diffs[q], size)
             diffs_samples_q == multiply(samples_q, diffs_tiled)
         IN  plus(moment_loop(diffs, samples_flat, size, dim, q - 1),
                  sum_axis1(reshape(diffs_samples_q, size, dim)))

\* moment_wrt_prob
moment_wrt_prob(self, srom, target, samples, probs) ==
    LET size == Len(samples)
        dim  == Len(samples[1])
        srom_moments   == SROM_compute_moments(srom, self.max_moment)
        target_moments == target_compute_moments(target, self.max_moment)
        diffs == rel_diffs(srom_moments, target_moments)
        samples_flat == flatten(samples)
        grad == moment_loop(diffs, samples_flat, size, dim, self.max_moment)
    IN  WithLog(Value(grad),
                <<Q("SROM", "compute_moments", srom),
                  Q("target", "compute_moments", srom)>>)

\* The double loop of corr_wrt_prob (lines 175-177) for one sample:
\* grad_sum += diffs[i,j] * sample_k[i] * sample_k[j], i outer, j inner;
\* n counts the (i, j) pairs done.
RECURSIVE corr_grad_sum(_, _, _, _)
corr_grad_sum(diffs, sample_k, dim, n) ==
    IF n = 0 THEN Zero
    ELSE LET i == ((n - 1) \div dim) + 1
             j == ((n - 1) % dim) + 1
         IN  Add(corr_grad_sum(diffs, sample_k, dim, n - 1),
                 Mul(Mul(diffs[i][j], sample_k[i]), sample_k[j]))

\* corr_wrt_prob without the early return for one dimension.
corr_wrt_prob_no_1d_case(self, srom, target, samples, probs) ==
    WithLog(Value([srom_ind \in 1..Len(samples) |->
                    corr_grad_sum(rel_diffs(SROM_compute_corr_mat(srom),
                                            target_compute_corr_mat(target)),
                                  samples[srom_ind], Len(samples[1]),
                                  Len(samples[1]) * Len(samples[1]))]),
            <<Q("SROM", "compute_corr_mat", srom),
              Q("target", "compute_corr_mat", srom)>>)

\* corr_wrt_prob
corr_wrt_prob(self, srom, target, samples, probs) ==
    LET size == Len(samples)
        dim  == Len(samples[1])
    IN  IF dim = 1 THEN WithLog(Value(zeros(size)), <<>>)
        ELSE LET srom_corr   == SROM_compute_corr_mat(srom)
                 target_corr == target_compute_corr_mat(target)
                 diffs == rel_diffs(srom_corr, target_corr)
                 grad  == [srom_ind \in 1..size |->
                            corr_grad_sum(diffs, samples[srom_ind], dim,
                                          dim * dim)]
             IN  WithLog(Value(grad),
                         <<Q("SROM", "compute_corr_mat", srom),
                           Q("target", "compute_corr_mat", srom)>>)

\* A term kept on at weight zero (>= for >).
weight_nonnegative(w) == Ge(w, Zero)

\* self._weights[t] > 0
weight_positive(w) == Gt(w, Zero)

\* One term of gradient_wrt_probs: computed if its weight is positive,
\* np.zeros(sromsize) otherwise.
term(w, computed, sromsize) ==
    IF weight_positive(w) THEN computed
    ELSE WithLog(Value(zeros(sromsize)), <<>>)

\* w * term, keeping an exception
weighted(w, t) == IF t.raised THEN t ELSE Value(scale(w, t.val))

\* The weighted sum with the moment weight applied to the correlation term.
weighted_sum_wrong_weight(weights, cdf_grad, moment_grad, corr_grad) ==
    WithLog(vadd(vadd(weighted(weights[1], cdf_grad),
                      weighted(weights[2], moment_grad)),
                 weighted(weights[2], corr_grad)),
            cdf_grad.log \o moment_grad.log \o corr_grad.log)

\* Lines 88-92 of gradient_wrt_probs: the weighted sum of the three terms
weighted_sum(weights, cdf_grad, moment_grad, corr_grad) ==
    WithLog(vadd(vadd(weighted(weights[1], cdf_grad),
                      weighted(weights[2], moment_grad)),
                 weighted(weights[3], corr_grad)),
            cdf_grad.log \o moment_grad.log \o corr_grad.log)

\* gradient_wrt_probs
gradient_wrt_probs(self, srom, target, samples, probs) ==
    weighted_sum(self.weights,
                 term(self.weights[1],
                      CDF_wrt_prob(self, srom, target, samples, probs),
                      srom.size),
                 term(self.weights[2],
                      moment_wrt_prob(self, srom, target, samples, probs),
                      srom.size),
                 term(self.weights[3],
                      corr_wrt_prob(self, srom, target, samples, probs),
                      srom.size))

\* The outcome of __init__: the fields of the constructed object, or the
\* exception that aborted the construction (the object is then never
\* returned to the caller).
NoGradient ==
    [status |-> "none", exc |-> "", x_grid |-> <<>>, weights |-> <<>>,
     metric |-> <<>>, max_moment |-> 0]

Aborted(msg) ==
    [status |-> "raised", exc |-> msg, x_grid |-> <<>>, weights |-> <<>>,
     metric |-> <<>>, max_moment |-> 0]

\* error compared without upper-casing it.
metric_ok_case_sensitive(error) ==
    error \in {<<"M", "E", "A", "N">>, <<"M", "A", "X">>, <<"S", "S", "E">>}

\* error.upper() in ["MEAN", "MAX", "SSE"]
Metrics == {<<"M", "E", "A", "N">>, <<"M", "A", "X">>, <<"S", "S", "E">>}

metric_ok(error) == upper(error) \in Metrics

\* len(obj_weights) != 3 for a given obj_weights
weights_bad(obj_weights) == Len(obj_weights.val) # 3

\* __init__; obj_weights is [given, val]: given = FALSE stands for None.
init(target, obj_weights, error, max_moment, cdf_grid_pts) ==
    LET x_grid == generate_cdf_grids(target, cdf_grid_pts)
    IN  IF obj_weights.given /\ weights_bad(obj_weights)
            THEN Aborted("obj_weights must have length 3!")
        ELSE IF ~metric_ok(error)
            THEN Aborted("error must be either 'mean','max', or 'sse'")
        ELSE [status |-> "ok", exc |-> "", x_grid |-> x_grid,
              weights |-> IF obj_weights.given THEN obj_weights.val
                          ELSE <<One, One, One>>,
              metric |-> upper(error), max_moment |-> max_moment]

\* A call's effect on the SROM object and its result, the log led by the
\* set_params call.
after_set_params(synced, r) ==
    [srom |-> synced,
     res  |-> WithLog(r, <<Q("SROM", "set_params", synced)>> \o r.log)]

\* evaluate with the gradient computed before the parameters are set.
evaluate_before_set_params(self, srom, target, samples, probs) ==
    after_set_params(SROM_set_params(samples, probs),
                     gradient_wrt_probs(self, srom, target, samples, probs))

\* evaluate: self._SROM.set_params(samples, probs), then
\* gradient_wrt_probs(samples, probs) on the SROM state that leaves
evaluate(self, srom, target, samples, probs) ==
    after_set_params(SROM_set_params(samples, probs),
                     gradient_wrt_probs(self, SROM_set_params(samples, probs),
                                        target, samples, probs))

----------------------------------------------------------------------------
(* Bounds and input sets                                                   *)

MaxSize    == 2     \* rows of a sample matrix
MaxDim     == 2     \* dimension of the random vector
MaxMoment  == 2     \* max_moment
MaxGridPts == 3     \* cdf_grid_pts

R(n, d) == Rat(n, d)

\* Sample coordinates: inside [0,1], beyond it, and on the grid point 1
\* (the end of [0,1], the middle of [-1,3]).
SampleVals == <<R(1, 4), R(3, 4), R(2, 1), One>>

RowIds == {1, 2, 3}

\* Candidate sample points of dimension dim: row r holds the values
\* r, r+1, ... of SampleVals (cyclically), so its coordinates differ.
Row(r, dim) ==
    [i \in 1..dim |-> SampleVals[((r + i - 2) % Len(SampleVals)) + 1]]

Rows(dim) == {Row(r, dim) : r \in RowIds}

\* Probability vectors of a given length: uniform, and increasing
\* k / (1 + ... + size).
ProbVecs(size) ==
    {[k \in 1..size |-> R(1, size)],
     [k \in 1..size |-> R(2 * k, size * (size + 1))]}

\* Sample matrices with size rows: the consecutive candidate points
\* r, r+1, ... (cyclically), from each starting point r.
SampleMatrices(size, dim) ==
    {[k \in 1..size |-> Row(((r + k - 2) % Cardinality(RowIds)) + 1, dim)] :
        r \in RowIds}

\* The (samples, probs) pairs a caller passes: size x dim and size.
Inputs(dim) ==
    UNION {{[samples |-> m, probs |-> p] :
                m \in SampleMatrices(size, dim), p \in ProbVecs(size)} :
           size \in 1..MaxSize}

RECURSIVE IntPow(_, _)
IntPow(a, q) == IF q = 0 THEN 1 ELSE a * IntPow(a, q - 1)

\* Rows of a target's moment table: max_moment of them, and the second
\* moments for the diagonal of its correlation matrix.
MomentRows == IF MaxMoment < 2 THEN 2 ELSE MaxMoment

\* The moment of order q of the uniform distribution on [a, b]
UniformMoment(a, b, q) ==
    Rat(IntPow(b, q + 1) - IntPow(a, q + 1), (q + 1) * (b - a))

\* A target with uniform marginals on [mins[i], maxs[i]] and
\* E[X_i X_j] = corr_off for i # j.
Uniform(dim, mins, maxs, corr_off) ==
    [dim |-> dim, mins |-> mins, maxs |-> maxs, cdf |-> "uniform",
     moments |-> [q \in 1..MomentRows |->
                    [i \in 1..dim |-> UniformMoment(mins[i], maxs[i], q)]],
     corr |-> [i \in 1..dim |->
                [j \in 1..dim |->
                    IF i = j THEN UniformMoment(mins[i], maxs[i], 2)
                    ELSE corr_off]]]

\* Target random vectors of dimension dim: uniform on [0,1]; uniform on
\* [-1,1] and uncorrelated (odd moments and E[X_i X_j] are 0); bounds that
\* differ from one dimension to the next.
Targets(dim) ==
    {Uniform(dim, [i \in 1..dim |-> 0], [i \in 1..dim |-> 1], R(1, 4)),
     Uniform(dim, [i \in 1..dim |-> -1], [i \in 1..dim |-> 1], Zero),
     Uniform(dim, [i \in 1..dim |-> 1 - i], [i \in 1..dim |-> i + 1], One)}

\* SROM objects as the caller initialized them: one of each size, holding
\* the first rows and uniform probabilities.
InitialSROMs(dim) ==
    {SROM_set_params([k \in 1..size |-> Row(k, dim)],
                     [k \in 1..size |-> R(1, size)]) : size \in 1..MaxSize}

None == [given |-> FALSE, val |-> <<>>]
Given(w) == [given |-> TRUE, val |-> w]

\* obj_weights arguments: None, and lists of length 0, 2, 3 and 4
WeightArgs ==
    {None, Given(<<>>), Given(<<One, One>>), Given(<<R(2, 1), Zero, One>>),
     Given(<<One, One, One, One>>)}

\* error arguments
ErrorArgs ==
    {<<"m", "e", "a", "n">>, <<"M", "e", "a", "n">>, <<"M", "E", "A", "N">>,
     <<"m", "a", "x">>, <<"S", "s", "e">>,
     <<"w", "e", "i", "r", "d">>, <<"m", "e", "a", "n", "s">>, <<>>}

----------------------------------------------------------------------------
(* The state machine                                                       *)

VARIABLES
    gradient,   \* the Gradient object: NoGradient, Aborted(..) or its fields
    SROM,       \* the SROM model object: [size, dim, samples, probs]
    targetRV,   \* the target random vector
    call,       \* the last call made: [op, args]
    ret,        \* what it returned or raised: [raised, exc, val]
    log         \* the collaborator calls it made, in order

vars == <<gradient, SROM, targetRV, call, ret, log>>

NoCall == [op |-> "none", args |-> <<>>]
NoRet  == Value(<<>>)

Result(r) == [raised |-> r.raised, exc |-> r.exc, val |-> r.val]

\* Before construction: a target and an initialized SROM of its dimension.
Init ==
    /\ \E dim \in 1..MaxDim :
          /\ targetRV \in Targets(dim)
          /\ SROM \in {s \in InitialSROMs(dim) : s.size = 1}
    /\ gradient = NoGradient
    /\ call = NoCall
    /\ ret = NoRet
    /\ log = <<>>

\* Gradient(SROM, targetRV, obj_weights, error, max_moment, cdf_grid_pts)
Construct ==
    /\ gradient.status = "none"
    /\ \E obj_weights \in WeightArgs, error \in ErrorArgs,
          max_moment \in {1, MaxMoment}, cdf_grid_pts \in 1..MaxGridPts :
          /\ gradient' = init(targetRV, obj_weights, error, max_moment,
                              cdf_grid_pts)
          /\ call' = [op |-> "__init__",
                      args |-> <<obj_weights, error, max_moment,
                                 cdf_grid_pts>>]
          /\ ret' = IF gradient'.status = "raised"
                    THEN Raise("ValueError") ELSE NoRet
    /\ log' = <<>>
    /\ UNCHANGED <<SROM, targetRV>>

\* A behaviour makes one call on the constructed object.  What a call
\* returns depends on the object, the SROM state it finds and its
\* arguments only; Init ranges over the SROM states.
CanCall == gradient.status = "ok" /\ call.op \in {"none", "__init__"}

Called(op, in, r) ==
    /\ call' = [op |-> op, args |-> <<in.samples, in.probs>>]
    /\ ret' = Result(r)
    /\ log' = r.log

CalledEvaluate(in, e) ==
    /\ SROM' = e.srom
    /\ Called("evaluate", in, e.res)

\* gradient.evaluate(samples, probs)
Evaluate ==
    /\ CanCall
    /\ \E in \in Inputs(targetRV.dim) :
          CalledEvaluate(in, evaluate(gradient, SROM, targetRV,
                                      in.samples, in.probs))
    /\ UNCHANGED <<gradient, targetRV>>

\* gradient.gradient_wrt_probs(samples, probs), called directly
GradientWrtProbs ==
    /\ CanCall
    /\ \E in \in Inputs(targetRV.dim) :
          Called("gradient_wrt_probs", in,
                 gradient_wrt_probs(gradient, SROM, targetRV,
                                    in.samples, in.probs))
    /\ UNCHANGED <<gradient, SROM, targetRV>>

\* gradient.CDF_wrt_prob(samples, probs), called directly
CDFWrtProb ==
    /\ CanCall
    /\ \E in \in Inputs(targetRV.dim) :
          Called("CDF_wrt_prob", in,
                 CDF_wrt_prob(gradient, SROM, targetRV, in.samples, in.probs))
    /\ UNCHANGED <<gradient, SROM, targetRV>>

\* gradient.moment_wrt_prob(samples, probs), called directly
MomentWrtProb ==
    /\ CanCall
    /\ \E in \in Inputs(targetRV.dim) :
          Called("moment_wrt_prob", in,
                 moment_wrt_prob(gradient, SROM, targetRV,
                                 in.samples, in.probs))
    /\ UNCHANGED <<gradient, SROM, targetRV>>

\* gradient.corr_wrt_prob(samples, probs), called directly
CorrWrtProb ==
    /\ CanCall
    /\ \E in \in Inputs(targetRV.dim) :
          Called("corr_wrt_prob", in,
                 corr_wrt_prob(gradient, SROM, targetRV, in.samples, in.probs))
    /\ UNCHANGED <<gradient, SROM, targetRV>>

\* Construction and the optimizer's call.
Next == Construct \/ Evaluate

Spec == Init /\ [][Next]_vars

----------------------------------------------------------------------------
(* Specifications of the methods on a constructed object                   *)

Mean == <<"m", "e", "a", "n">>

\* A state right after a successful construction.
Constructed(weights, max_moments, grid_pts, targets) ==
    /\ \E dim \in 1..MaxDim :
          /\ targetRV \in targets[dim]
          /\ SROM \in InitialSROMs(dim)
    /\ \E w \in weights, m \in max_moments, g \in grid_pts :
          gradient = init(targetRV, Given(w), Mean, m, g)
    /\ call = NoCall
    /\ ret = NoRet
    /\ log = <<>>

\* Weight vectors: all terms on, each term off, all off, a doubled and a
\* negative weight.
WeightVecs ==
    {<<One, One, One>>, <<Zero, One, R(2, 1)>>, <<One, Zero, One>>,
     <<R(2, 1), One, Zero>>, <<Zero, Zero, Zero>>, <<One, Neg(One), One>>}

UnitTargets(dim) == {t \in Targets(dim) : t.maxs[dim] = 1}

\* gradient_wrt_probs and evaluate under every weight vector
InitGrad == Constructed(WeightVecs, {MaxMoment}, {MaxGridPts},
                        [dim \in 1..MaxDim |-> UnitTargets(dim)])
NextGrad == Evaluate \/ GradientWrtProbs
SpecGrad == InitGrad /\ [][NextGrad]_vars

\* CDF_wrt_prob on every grid
InitCDF == Constructed({<<One, One, One>>}, {1}, 1..MaxGridPts,
                       [dim \in 1..MaxDim |-> Targets(dim)])
NextCDF == CDFWrtProb
SpecCDF == InitCDF /\ [][NextCDF]_vars

\* moment_wrt_prob for every max_moment
InitMoment == Constructed({<<One, One, One>>}, 1..MaxMoment, {1},
                       [dim \in 1..MaxDim |-> Targets(dim)])
NextMoment == MomentWrtProb
SpecMoment == InitMoment /\ [][NextMoment]_vars

\* corr_wrt_prob
InitCorr == Constructed({<<One, One, One>>}, {1}, {1},
                       [dim \in 1..MaxDim |-> Targets(dim)])
NextCorr == CorrWrtProb
SpecCorr == InitCorr /\ [][NextCorr]_vars

\* The worked scenario of the specification: a 1-D target uniform on
\* [0,1], max_moment = 2, cdf_grid_pts = 5, obj_weights = (1, 1, 0); the
\* SROM in any state an earlier call left it in.
ScenarioTarget == Uniform(1, <<0>>, <<1>>, R(1, 4))

ScenarioInput ==
    [samples |-> <<<<R(1, 4)>>, <<R(3, 4)>>>>, probs |-> <<R(1, 2), R(1, 2)>>]

InitScenario ==
    /\ targetRV = ScenarioTarget
    /\ \E in \in Inputs(1) : SROM = SROM_set_params(in.samples, in.probs)
    /\ gradient = init(targetRV, Given(<<One, One, Zero>>), Mean, 2, 5)
    /\ call = NoCall
    /\ ret = NoRet
    /\ log = <<>>

NextScenario == Evaluate \/ CDFWrtProb \/ MomentWrtProb \/ CorrWrtProb
SpecScenario == InitScenario /\ [][NextScenario]_vars

----------------------------------------------------------------------------
(* The claims                                                              *)

Args1 == call.args[1]
Args2 == call.args[2]

\* str.lower(), for stating case-insensitivity independently of upper()
LowerChar(c) ==
    CASE c = "A" -> "a" [] c = "E" -> "e" [] c = "M" -> "m" [] c = "N" -> "n"
      [] c = "S" -> "s" [] c = "X" -> "x" [] OTHER -> c

lower(str) == [k \in 1..Len(str) |-> LowerChar(str[k])]

C5_Valid(obj_weights, error) ==
    /\ ~obj_weights.given \/ Len(obj_weights.val) = 3
    /\ lower(error) \in {<<"m", "e", "a", "n">>, <<"m", "a", "x">>,
                         <<"s", "s", "e">>}

C5_Canonical(error) ==
    CASE lower(error) = <<"m", "e", "a", "n">> -> <<"M", "E", "A", "N">>
      [] lower(error) = <<"m", "a", "x">> -> <<"M", "A", "X">>
      [] lower(error) = <<"s", "s", "e">> -> <<"S", "S", "E">>

\* C1: evaluate(samples, probs) first calls set_params with exactly
\* (samples, probs); every SROM statistic read in the call is served from
\* that parameter state; and the value returned is what gradient_wrt_probs
\* (samples, probs) returns in the SROM state the call leaves.
C1_EvaluateSyncsFirst ==
    call.op = "evaluate" =>
        /\ Len(log) >= 1
        /\ log[1] = [obj |-> "SROM", method |-> "set_params",
                     params |-> <<Args1, Args2>>]
        /\ \A k \in 2..Len(log) :
              /\ log[k].method # "set_params"
              /\ log[k].obj = "SROM" => log[k].params = <<Args1, Args2>>
        /\ SROM.samples = Args1 /\ SROM.probs = Args2
        /\ ret = Result(gradient_wrt_probs(gradient, SROM, targetRV,
                                           Args1, Args2))

\* An evaluate call that read all three SROM statistics.
C1_Witness ==
    /\ call.op = "evaluate"
    /\ {log[k].method : k \in 1..Len(log)} =
          {"set_params", "compute_CDF", "compute_moments", "compute_corr_mat"}
    /\ Len(Args1) = 2

\* C5: construction raises a ValueError, leaving no object to evaluate,
\* exactly when obj_weights is given with a length other than 3 or error is
\* not mean/max/sse up to case; otherwise it succeeds, with the metric in
\* one canonical form whatever the case of error, the weights as given or
\* (1, 1, 1) when omitted, and max_moment as given.
C5_ConstructionValidation ==
    /\ call.op = "__init__" =>
          LET obj_weights == call.args[1]
              error == call.args[2]
          IN  IF C5_Valid(obj_weights, error)
              THEN /\ gradient.status = "ok"
                   /\ ~ret.raised
                   /\ gradient.metric = C5_Canonical(error)
                   /\ gradient.weights = IF obj_weights.given
                                         THEN obj_weights.val
                                         ELSE <<One, One, One>>
                   /\ gradient.max_moment = call.args[3]
              ELSE /\ gradient.status = "raised"
                   /\ ret.raised /\ ret.exc = "ValueError"
                   /\ gradient.x_grid = <<>> /\ gradient.weights = <<>>
                   /\ ~ENABLED Evaluate
    /\ call.op = "evaluate" => gradient.status = "ok"

\* A mixed-case metric name and omitted weights: construction succeeded.
C5_Witness ==
    /\ call.op = "__init__"
    /\ call.args[2] = <<"M", "e", "a", "n">>
    /\ ~call.args[1].given
    /\ gradient.status = "ok"
    /\ gradient.weights = <<One, One, One>>

C6_N == Len(gradient.x_grid)

C6_Shape ==
    /\ C6_N >= 1
    /\ call.op = "__init__" => C6_N = call.args[4]
    /\ \A g \in 1..C6_N : Len(gradient.x_grid[g]) = targetRV.dim

C6_A(i) == Rat(targetRV.mins[i], 1)
C6_B(i) == Rat(targetRV.maxs[i], 1)

\* C6 as claimed: for every N >= 1 the grid has N rows and dim columns,
\* and column i is evenly spaced with first value a_i and last value b_i.
C6_Original ==
    gradient.status = "ok" =>
        /\ C6_Shape
        /\ \A i \in 1..targetRV.dim :
              /\ gradient.x_grid[1][i] = C6_A(i)
              /\ gradient.x_grid[C6_N][i] = C6_B(i)
              /\ \A g \in 2..(C6_N - 1) :
                    Sub(gradient.x_grid[g + 1][i], gradient.x_grid[g][i]) =
                    Sub(gradient.x_grid[g][i], gradient.x_grid[g - 1][i])

\* C6 amended: the grid has N rows and dim columns and column i starts at
\* a_i; for N >= 2 row g of column i is a_i + (g-1)(b_i - a_i)/(N-1), so
\* the column is evenly spaced and ends at b_i; for N = 1 the column is
\* the single value a_i.
C6_Amended ==
    gradient.status = "ok" =>
        /\ C6_Shape
        /\ \A i \in 1..targetRV.dim :
              /\ gradient.x_grid[1][i] = C6_A(i)
              /\ C6_N >= 2 =>
                    /\ gradient.x_grid[C6_N][i] = C6_B(i)
                    /\ \A g \in 1..C6_N :
                          gradient.x_grid[g][i] =
                            Add(C6_A(i),
                                Div(Mul(Rat(g - 1, 1),
                                        Sub(C6_B(i), C6_A(i))),
                                    Rat(C6_N - 1, 1)))

\* A grid with an interior row, over bounds that differ between dimensions.
C6_Witness ==
    /\ call.op = "__init__" /\ gradient.status = "ok"
    /\ C6_N >= 3
    /\ targetRV.dim >= 2
    /\ targetRV.mins[1] # targetRV.mins[2]

GradOps == {"evaluate", "gradient_wrt_probs"}

\* The three term vectors, each computed on its own in the current state.
CDFTerm    == CDF_wrt_prob(gradient, SROM, targetRV, Args1, Args2).val
MomentTerm == moment_wrt_prob(gradient, SROM, targetRV, Args1, Args2).val
CorrTerm   == corr_wrt_prob(gradient, SROM, targetRV, Args1, Args2).val

AllFinite(v) == \A k \in 1..Len(v) : IsFinite(v[k])

\* w1*c + w2*m + w3*r, entry by entry
C2_WeightedSum(w, c, m, r) ==
    [k \in 1..Len(c) |->
        Add(Add(Mul(w[1], c[k]), Mul(w[2], m[k])), Mul(w[3], r[k]))]

\* The same with the terms of weight <= 0 left out
C2_PositiveSum(w, c, m, r) ==
    [k \in 1..Len(c) |->
        Add(Add(IF Gt(w[1], Zero) THEN Mul(w[1], c[k]) ELSE Zero,
                IF Gt(w[2], Zero) THEN Mul(w[2], m[k]) ELSE Zero),
            IF Gt(w[3], Zero) THEN Mul(w[3], r[k]) ELSE Zero)]

C2_Benign(w, c, m, r) ==
    /\ \A t \in 1..3 : Ge(w[t], Zero)
    /\ w[1] = Zero => AllFinite(c)
    /\ w[2] = Zero => AllFinite(m)
    /\ w[3] = Zero => AllFinite(r)

C2_Part(t, v) ==
    IF Gt(gradient.weights[t], Zero)
    THEN Value([k \in 1..Len(v) |-> Mul(gradient.weights[t], v[k])])
    ELSE Value([k \in 1..SROM.size |-> Zero])

C3_Perturbed(t, target) ==
    CASE t = 1 -> {[target EXCEPT !.cdf = "atom"]}
      [] t = 2 -> {[target EXCEPT !.moments =
                        [q \in 1..MomentRows |->
                            [i \in 1..target.dim |-> v]]] : v \in {Zero, One}}
      [] t = 3 -> {[target EXCEPT !.corr =
                        [i \in 1..target.dim |->
                            [j \in 1..target.dim |-> v]]] : v \in {Zero, One}}

C3_Statistic(t) ==
    CASE t = 1 -> "compute_CDF" [] t = 2 -> "compute_moments"
      [] t = 3 -> "compute_corr_mat"

\* The call made, made again on another target.
C3_Again(target) ==
    IF call.op = "evaluate"
    THEN Result(evaluate(gradient, SROM, target, Args1, Args2).res)
    ELSE Result(gradient_wrt_probs(gradient, SROM, target, Args1, Args2))

C4_Original ==
    call.op \in GradOps => ~ret.raised /\ Len(ret.val) = Len(Args1)

\* The sum of f over the finite set S
RECURSIVE SumOver(_, _)
SumOver(S, f) ==
    IF S = {} THEN Zero
    ELSE LET x == CHOOSE x \in S : TRUE
         IN  Add(f[x], SumOver(S \ {x}, f))

\* (srom - target) / target^2 for one entry
RelDiff(srom_value, target_value) ==
    Div(Sub(srom_value, target_value), Mul(target_value, target_value))

\* C7: in the scenario's evaluate call the correlation term is all-zero, the CDF
\* term and the moment term are finite vectors of length 2 (the target CDF
\* is 0 at the grid point 0), and evaluate returns their sum.
C7_WorkedScenario ==
    (call.op = "evaluate" /\ Args1 = ScenarioInput.samples
                          /\ Args2 = ScenarioInput.probs) =>
        /\ gradient.weights = <<One, One, Zero>>
        /\ Len(gradient.x_grid) = 5 /\ gradient.max_moment = 2
        /\ gradient.x_grid[1][1] = Zero
        /\ target_compute_CDF(targetRV, gradient.x_grid)[1][1] = Zero
        /\ CorrTerm = <<Zero, Zero>>
        /\ Len(CDFTerm) = 2 /\ AllFinite(CDFTerm)
        /\ Len(MomentTerm) = 2 /\ AllFinite(MomentTerm)
        /\ CDFTerm = <<R(40, 9), R(4, 9)>>
        /\ MomentTerm = <<R(-3, 256), R(-27, 256)>>
        /\ ret = Value([k \in 1..2 |-> Add(CDFTerm[k], MomentTerm[k])])

C7_Witness ==
    /\ call.op = "evaluate"
    /\ Args1 = ScenarioInput.samples /\ Args2 = ScenarioInput.probs
    /\ ~ret.raised /\ Len(ret.val) = 2

C8_Diff(g, i) ==
    RelDiff(SROM_compute_CDF(SROM, gradient.x_grid)[g][i],
            target_compute_CDF(targetRV, gradient.x_grid)[g][i])

\* The (grid point, dimension) pairs whose grid value is >= sample k's
\* coordinate
C8_Pairs(k) ==
    {p \in (1..Len(gradient.x_grid)) \X (1..targetRV.dim) :
        Ge(gradient.x_grid[p[1]][p[2]], Args1[k][p[2]])}

C8_Beyond(k) ==
    \A g \in 1..Len(gradient.x_grid), i \in 1..targetRV.dim :
        Gt(Args1[k][i], gradient.x_grid[g][i])

\* C8: CDF_wrt_prob returns for sample k the sum of diff[g, i] over exactly
\* the grid points g and dimensions i with grid[g, i] >= sample k's
\* coordinate i; so it is finite when those entries are, and 0 for a sample
\* beyond the grid in every coordinate.
C8_CDFTerm ==
    call.op = "CDF_wrt_prob" =>
        /\ ~ret.raised /\ Len(ret.val) = Len(Args1)
        /\ \A k \in 1..Len(Args1) :
              /\ ret.val[k] =
                    SumOver(C8_Pairs(k),
                            [p \in C8_Pairs(k) |-> C8_Diff(p[1], p[2])])
              /\ (\A p \in C8_Pairs(k) : IsFinite(C8_Diff(p[1], p[2])))
                    => IsFinite(ret.val[k])
              /\ C8_Beyond(k) => ret.val[k] = Zero

\* One sample with a finite, non-zero entry although a grid point below it
\* has a non-finite diff, and one sample beyond the grid.
C8_Witness ==
    /\ call.op = "CDF_wrt_prob"
    /\ \E k \in 1..Len(Args1) :
          /\ IsFinite(ret.val[k]) /\ ret.val[k] # Zero
          /\ \E g \in 1..Len(gradient.x_grid), i \in 1..targetRV.dim :
                /\ ~IsFinite(C8_Diff(g, i))
                /\ <<g, i>> \notin C8_Pairs(k)
    /\ \E k \in 1..Len(Args1) : C8_Beyond(k) /\ ret.val[k] = Zero

C9_Diff(q, i) ==
    RelDiff(SROM_compute_moments(SROM, gradient.max_moment)[q][i],
            target_compute_moments(targetRV, gradient.max_moment)[q][i])

C9_Orders == (1..gradient.max_moment) \X (1..targetRV.dim)

\* C9: moment_wrt_prob returns for sample k the sum over the orders
\* q = 1..max_moment and the dimensions i of diff[q, i] * samples[k, i]^q.
C9_MomentTerm ==
    call.op = "moment_wrt_prob" =>
        /\ ~ret.raised /\ Len(ret.val) = Len(Args1)
        /\ \A k \in 1..Len(Args1) :
              ret.val[k] =
                SumOver(C9_Orders,
                        [p \in C9_Orders |->
                            Mul(C9_Diff(p[1], p[2]),
                                Pow(Args1[k][p[2]], p[1]))])

\* Two samples in two dimensions, two orders, finite diffs that differ
\* between the dimensions.
C9_Witness ==
    /\ call.op = "moment_wrt_prob"
    /\ Len(Args1) = 2 /\ targetRV.dim = 2 /\ gradient.max_moment = 2
    /\ C9_Diff(1, 1) # C9_Diff(1, 2)
    /\ AllFinite(ret.val)
    /\ ret.val[1] # ret.val[2]

C10_Diff(i, j) ==
    RelDiff(SROM_compute_corr_mat(SROM)[i][j],
            target_compute_corr_mat(targetRV)[i][j])

C10_Pairs == (1..targetRV.dim) \X (1..targetRV.dim)

\* C10: corr_wrt_prob returns one entry per sample; in one dimension all
\* zeros, without querying a correlation matrix; otherwise for sample k
\* the sum over all i, j of diff[i, j] * sample_k[i] * sample_k[j].
C10_CorrTerm ==
    call.op = "corr_wrt_prob" =>
        /\ ~ret.raised /\ Len(ret.val) = Len(Args1)
        /\ IF targetRV.dim = 1
           THEN /\ \A k \in 1..Len(Args1) : ret.val[k] = Zero
                /\ log = <<>>
           ELSE \A k \in 1..Len(Args1) :
                  ret.val[k] =
                    SumOver(C10_Pairs,
                            [p \in C10_Pairs |->
                                Mul(Mul(C10_Diff(p[1], p[2]), Args1[k][p[1]]),
                                    Args1[k][p[2]])])

\* Two dimensions, a correlation matrix queried, finite non-zero entries.
C10_Witness ==
    /\ call.op = "corr_wrt_prob"
    /\ targetRV.dim = 2 /\ Len(Args1) = 2
    /\ Len(log) = 2
    /\ AllFinite(ret.val)
    /\ ret.val[1] # Zero /\ ret.val[1] # ret.val[2]

=============================================================================
